---- MODULE Spec2Model ----
(***************************************************************************)
(* Virtual try-on backend: provider selection with fallback, the           *)
(* generation request handler with its free-trial / credit debit, and the  *)
(* payment webhooks (Polar, Paddle) that add credits.  Every handler is    *)
(* cut at its awaits: one action per storage round-trip or remote call,    *)
(* so that concurrent requests interleave exactly where the event loop     *)
(* lets them.                                                              *)
(***************************************************************************)
EXTENDS Integers, Sequences, FiniteSets, TLC

VARIABLES
    cfg,            \* apiConfig[api].enabled / .active
    reloads,        \* number of configuration changes so far
    users,          \* table users: id -> row
    generations,    \* table generations (append order)
    creditHistory,  \* table credit_history (append order)
    req,            \* one record per POST /api/process-image request
    transactions,   \* table transactions (a set of rows)
    txDeleted,      \* rows of transactions that were deleted
    nextTxId,       \* next id the store gives a transactions row
    orders,         \* the metadata each Polar order carries
    del,            \* one record per Polar webhook delivery
    paddleEvents,   \* table paddle_events (rows in insertion order)
    pad,            \* one record per Paddle webhook delivery
    faults,         \* whether storage calls and fs.unlink may fail in this run
    init,           \* the account as it was before any request (for comparison)
    output,         \* the raw output a provider's remote call returned
    locator         \* what each provider's normalizer extracted from it

vars == <<cfg, reloads, users, generations, creditHistory, req, transactions,
          txDeleted, nextTxId, orders, del, paddleEvents, pad, faults, init,
          output, locator>>
genVars == <<cfg, reloads, generations, creditHistory, req>>
polarVars == <<orders, del>>
padVars == <<paddleEvents, pad>>
normVars == <<output, locator>>

(***************************************************************************)
(* Bounds of the model.                                                    *)
(***************************************************************************)
MaxInitCredits == 2
MaxReloads == 1

(***************************************************************************)
(* Program constants.                                                      *)
(***************************************************************************)
FreeTrialsLimit == 1
CreditsPerGeneration == 1

Reqs == {"r1", "r2"}
Dels == {"d1", "d2", "d3"}
Pads == {"p1", "p2"}
Orders == {"o1", "o2"}
UserIds == {"u1"}

\* A nullable number as the store and JSON carry it.
Nullable(n) == [isnull |-> FALSE, v |-> n]
Null == [isnull |-> TRUE, v |-> 0]
\* JavaScript ToNumber of a stored number: null counts as 0 in <, > and +.
ToNumber(x) == IF x.isnull THEN 0 ELSE x.v

(***************************************************************************)
(* Provider registry and selection (services/apiManager.js).               *)
(***************************************************************************)
Apis == <<"idm-vton", "nano-banana">>
ApiSet == {Apis[i] : i \in 1..Len(Apis)}
Categories == {"upper_body", "lower_body", "dresses"}

validateCategory_AcceptsAll(category) == TRUE
validateCategory(category) == category \in Categories

RECURSIVE FilterSeq(_, _)
FilterSeq(s, keep) ==
    IF s = <<>> THEN <<>>
    ELSE IF Head(s) \in keep THEN <<Head(s)>> \o FilterSeq(Tail(s), keep)
    ELSE FilterSeq(Tail(s), keep)

getActiveApis_EnabledOnly(c) ==
    FilterSeq(Apis, {a \in ApiSet : c[a].enabled})
getActiveApis(c) ==
    FilterSeq(Apis, {a \in ApiSet : c[a].enabled /\ c[a].active})

apiPriority(category) ==
    IF category = "dresses" THEN <<"nano-banana", "idm-vton">>
    ELSE <<"idm-vton", "nano-banana">>

\* "" stands for the thrown 'No active API available'.
selectBestApi(c, category) ==
    LET activeApis == getActiveApis(c)
        inPriority == FilterSeq(apiPriority(category),
                                {activeApis[i] : i \in 1..Len(activeApis)})
    IN  IF activeApis = <<>> THEN ""
        ELSE IF inPriority # <<>> THEN Head(inPriority)
        ELSE Head(activeApis)

\* processWithApi up to the provider's own synchronous checks:
\* "notfound" / "disabled" are thrown by ApiManager before the provider is
\* entered, "inactive" by the provider before its remote call, "call" means
\* the remote call is now in flight.
processWithApi(c, apiName) ==
    IF apiName \notin ApiSet THEN "notfound"
    ELSE IF ~c[apiName].enabled THEN "disabled"
    ELSE IF ~c[apiName].active THEN "inactive"
    ELSE "call"

processWithSpecificApi_IgnoresFlag(c, apiName) ==
    IF apiName \notin ApiSet THEN "notenabled" ELSE "call"

\* "notenabled" is processWithSpecificApi's own 'API ... is not enabled',
\* thrown before processWithApi is entered.
processWithSpecificApi(c, apiName) ==
    IF apiName \notin ApiSet \/ ~c[apiName].enabled THEN "notenabled"
    ELSE processWithApi(c, apiName)

\* error.message of what a call that did not start has thrown.
thrownMessage(r) ==
    IF r = "notenabled" THEN "API is not enabled"
    ELSE IF r = "disabled" THEN "API not enabled"
    ELSE IF r = "notfound" THEN "API not found"
    ELSE "provider failed"

(***************************************************************************)
(* The request record.                                                     *)
(***************************************************************************)
NoResp == [status |-> 0, success |-> FALSE, code |-> "", usedApi |-> "",
           fallback |-> FALSE, usedFreeTrial |-> FALSE,
           creditsRemaining |-> Null, freeTrialsRemaining |-> 0]

NoGenResult == [success |-> FALSE, code |-> "", hasRemaining |-> FALSE,
                credits_remaining |-> 0]

IdleReq == [pc |-> "idle", userId |-> "", user |-> [credits |-> Null, ftu |-> 0, ftl |-> 0],
            hasFreeTrial |-> FALSE, hasCredits |-> FALSE, category |-> "",
            api |-> "", selected |-> "", activeApis |-> <<>>,
            cur |-> "", queue |-> <<>>,
            usedApi |-> "", fallback |-> FALSE, branch |-> "",
            dval |-> 0, genResult |-> NoGenResult, resp |-> NoResp,
            calls |-> <<>>, lastError |-> "", lastCause |-> "",
            nFree |-> 0, nCred |-> 0, nHist |-> 0, nGen |-> 0, nDebitCalls |-> 0]

StorageOutcomes == IF faults THEN {"ok", "err"} ELSE {"ok"}
UnlinkOutcomes == IF faults THEN {"ok", "err"} ELSE {"ok"}

ErrorResp(status, code) == [NoResp EXCEPT !.status = status, !.code = code]

\* res.json({success: true, ...}) of either branch of the handler.
SuccessResp(q) ==
    [status |-> 200, success |-> TRUE, code |-> "",
     usedApi |-> q.usedApi,
     fallback |-> q.fallback,
     usedFreeTrial |-> (q.hasFreeTrial /\ ~q.hasCredits),
     creditsRemaining |->
        IF q.genResult.hasRemaining /\ q.genResult.credits_remaining # 0
        THEN Nullable(q.genResult.credits_remaining)
        ELSE q.user.credits,
     freeTrialsRemaining |->
        q.user.ftl - (q.user.ftu + (IF q.hasFreeTrial THEN 1 ELSE 0))]

\* The outer catch of the handler: temporary files are removed (errors of the
\* removal are swallowed) and 500 'Processing failed' is sent.
\* The error was made by new Error(message): it carries that message and no
\* cause.
ProcessingFailed(q, err) ==
    [q EXCEPT !.pc = "done", !.lastError = err, !.lastCause = "",
              !.resp = ErrorResp(500, err)]

\* The fallback loop of autoProcess from its current position: candidates
\* that throw before their remote call are skipped, the first one whose call
\* starts is awaited, and an exhausted list throws 'All APIs failed'.
RECURSIVE FallbackLoop(_, _, _)
FallbackLoop(q, c, queue) ==
    IF queue = <<>> THEN ProcessingFailed(q, "All APIs failed to process the image")
    ELSE LET a == Head(queue)
             r == processWithApi(c, a)
         IN  IF r = "call"
             THEN [q EXCEPT !.pc = "calling", !.cur = a, !.queue = Tail(queue),
                            !.calls = Append(q.calls, [api |-> a, res |-> "call"])]
             ELSE FallbackLoop([q EXCEPT !.calls = Append(q.calls, [api |-> a, res |-> r])],
                               c, Tail(queue))

ProviderSucceeded_AlwaysFallback(q) ==
    [q EXCEPT !.pc = "download", !.usedApi = q.cur, !.fallback = TRUE]

ProviderSucceeded_NoFallbackFlag(q) ==
    [q EXCEPT !.pc = "download", !.usedApi = q.cur, !.fallback = FALSE]

\* A provider call returned a locator: processWithSpecificApi's result is
\* wrapped by the handler, autoProcess returns usedApi and, from the fallback
\* loop only, fallback: true.
ProviderSucceeded(q) ==
    [q EXCEPT !.pc = "download", !.usedApi = q.cur,
              !.fallback = (q.api = "" /\ q.cur # q.selected)]

\* autoProcess up to its first await.
autoProcess(q, c) ==
    LET selectedApi == selectBestApi(c, q.category)
    IN  IF selectedApi = "" THEN ProcessingFailed(q, "No active API available")
        ELSE [q EXCEPT !.pc = "calling", !.selected = selectedApi, !.cur = selectedApi,
                       !.activeApis = getActiveApis(c),
                       !.calls = <<[api |-> selectedApi, res |-> "call"]>>]

autoFallback_SwallowsError(q, c) ==
    [q EXCEPT !.pc = "download", !.usedApi = q.selected]

autoFallback_CachedList(q, c) ==
    FallbackLoop(q, c, FilterSeq(q.activeApis, ApiSet \ {q.selected}))

autoFallback_RetriesSelected(q, c) == FallbackLoop(q, c, getActiveApis(c))

\* The catch of autoProcess after the selected provider failed.
autoFallback(q, c) ==
    LET activeApis == FilterSeq(getActiveApis(c), ApiSet \ {q.selected})
    IN  FallbackLoop(q, c, activeApis)

namedFailure_FallsBack(q, c) == autoFallback([q EXCEPT !.selected = q.api], c)

\* processWithSpecificApi rejected: the await in the handler throws into the
\* outer catch.
namedFailure(q, c) == ProcessingFailed(q, "provider failed")

\* Section 3 of the handler up to its first await.
StartProcessing(q, c) ==
    IF q.api # ""
    THEN LET r == processWithSpecificApi(c, q.api)
         IN  IF r = "call"
             THEN [q EXCEPT !.pc = "calling", !.cur = q.api,
                            !.calls = <<[api |-> q.api, res |-> "call"]>>]
             ELSE ProcessingFailed(
                      [q EXCEPT !.calls = IF r = "inactive"
                                          THEN <<[api |-> q.api, res |-> r]>>
                                          ELSE <<>>],
                      thrownMessage(r))
    ELSE autoProcess(q, c)

(***************************************************************************)
(* POST /api/process-image (app.js).                                       *)
(***************************************************************************)
\* Sections 1: the user id of the body.
GenStart(r) ==
    /\ req[r].pc = "idle"
    /\ \E uid \in {"", "u1", "u9"} :
          req' = [req EXCEPT ![r] =
                    IF uid = ""
                    THEN [@ EXCEPT !.pc = "done", !.resp = ErrorResp(401, "AUTH_REQUIRED")]
                    ELSE [@ EXCEPT !.pc = "check", !.userId = uid]]
    /\ UNCHANGED <<cfg, reloads, users, generations, creditHistory, faults, init, normVars, transactions, txDeleted, nextTxId, polarVars, padVars>>

\* The balance check: neither a free trial nor a credit left.
noBalance_NeverRejects(hasFreeTrial, hasCredits) == FALSE
noBalance(hasFreeTrial, hasCredits) == ~hasFreeTrial /\ ~hasCredits

\* The users select returns; balance check, file and category validation,
\* and the start of the first provider call.
GenBalanceCheck(r) ==
    /\ req[r].pc = "check"
    /\ \E o \in StorageOutcomes, filesOk \in BOOLEAN,
          cat \in Categories \cup {"", "hats"}, sel \in {""} \cup ApiSet \cup {"bogus"} :
          LET q == req[r]
              found == o = "ok" /\ q.userId \in UserIds
              row == users[IF found THEN q.userId ELSE "u1"]
              user == [credits |-> row.credits, ftu |-> row.free_trials_used,
                       ftl |-> row.free_trials_limit]
              hasFreeTrial == user.ftu < user.ftl
              hasCredits == ToNumber(user.credits) > 0
              category == IF cat = "" THEN "upper_body" ELSE cat
              q1 == [q EXCEPT !.user = user, !.hasFreeTrial = hasFreeTrial,
                              !.hasCredits = hasCredits]
          IN  req' = [req EXCEPT ![r] =
                IF ~found
                THEN [q EXCEPT !.pc = "done", !.resp = ErrorResp(404, "USER_NOT_FOUND")]
                ELSE IF noBalance(hasFreeTrial, hasCredits)
                THEN [q1 EXCEPT !.pc = "done", !.resp = ErrorResp(403, "NO_CREDITS")]
                ELSE IF ~filesOk
                THEN [q1 EXCEPT !.pc = "done", !.resp = ErrorResp(400, "FILES")]
                ELSE IF ~validateCategory(category)
                THEN [q1 EXCEPT !.pc = "done", !.category = category,
                                !.resp = ErrorResp(400, "CATEGORY")]
                ELSE StartProcessing([q1 EXCEPT !.category = category, !.api = sel], cfg)]
    /\ UNCHANGED <<cfg, reloads, users, generations, creditHistory, faults, init, normVars, transactions, txDeleted, nextTxId, polarVars, padVars>>

\* The provider's remote call returns a locator or fails (error, timeout,
\* no locator in its output).
GenProviderReturn(r) ==
    /\ req[r].pc = "calling"
    /\ \E ok \in BOOLEAN :
          LET q == req[r]
              logged == [q EXCEPT !.calls[Len(q.calls)].res =
                                       IF ok THEN "ok" ELSE "fail"]
          IN  req' = [req EXCEPT ![r] =
                IF ok
                THEN ProviderSucceeded(logged)
                ELSE IF q.api # ""
                THEN namedFailure(logged, cfg)
                ELSE IF q.cur = q.selected
                THEN autoFallback(logged, cfg)
                ELSE FallbackLoop(logged, cfg, q.queue)]
    /\ UNCHANGED <<cfg, reloads, users, generations, creditHistory, faults, init, normVars, transactions, txDeleted, nextTxId, polarVars, padVars>>

\* Section 4: the result is saved locally, or not; either way the debit
\* follows, in the try block or in catch (downloadError).
GenDownload(r) ==
    /\ req[r].pc = "download"
    /\ \E ok \in BOOLEAN :
          req' = [req EXCEPT ![r] =
                    [@ EXCEPT !.pc = "dRead",
                              !.branch = IF ok THEN "try" ELSE "catch",
                              !.nDebitCalls = @ + 1]]
    /\ UNCHANGED <<cfg, reloads, users, generations, creditHistory, faults, init, normVars, transactions, txDeleted, nextTxId, polarVars, padVars>>

usesFreeTrial_CreditsFirst(q) == q.hasFreeTrial /\ ~q.hasCredits

\* Section 5 of the handler: useFreeTrial when the balance check saw a free
\* trial left, useCredits otherwise.
usesFreeTrial(q) == q.hasFreeTrial

\* What follows useFreeTrial / useCredits in the handler: the try block goes
\* on to remove the temporary files, the catch block answers.
AfterDebit(q, result) ==
    LET q1 == [q EXCEPT !.genResult = result]
    IN  IF q.branch = "try" THEN [q1 EXCEPT !.pc = "unlink"]
        ELSE [q1 EXCEPT !.pc = "done", !.resp = SuccessResp(q1)]

FailResult(code) == [NoGenResult EXCEPT !.code = code]

noFreeTrials_NeverChecked(row) == FALSE

\* useFreeTrial: user.free_trials_used >= user.free_trials_limit
noFreeTrials(row) == row.free_trials_used >= row.free_trials_limit
\* useCredits: user.credits < creditsToUse
insufficientCredits(row) == ToNumber(row.credits) < CreditsPerGeneration

\* useFreeTrial / useCredits: the users select and the check on it.
GenDebitRead(r) ==
    /\ req[r].pc = "dRead"
    /\ \E o \in StorageOutcomes :
          LET q == req[r]
              row == users[q.userId]
          IN  req' = [req EXCEPT ![r] =
                IF o # "ok" THEN AfterDebit(q, FailResult("User not found"))
                ELSE IF usesFreeTrial(q)
                THEN IF noFreeTrials(row)
                     THEN AfterDebit(q, FailResult("NO_FREE_TRIALS"))
                     ELSE [q EXCEPT !.pc = "dWrite", !.dval = row.free_trials_used]
                ELSE IF insufficientCredits(row)
                     THEN AfterDebit(q, FailResult("INSUFFICIENT_CREDITS"))
                     ELSE [q EXCEPT !.pc = "dWrite", !.dval = ToNumber(row.credits)]]
    /\ UNCHANGED <<cfg, reloads, users, generations, creditHistory, faults, init, normVars, transactions, txDeleted, nextTxId, polarVars, padVars>>

\* useFreeTrial / useCredits: the users update; its result is not looked at.
GenDebitWrite(r) ==
    /\ req[r].pc = "dWrite"
    /\ \E o \in StorageOutcomes :
          LET q == req[r]
          IN  /\ users' =
                    IF o # "ok" THEN users
                    ELSE IF usesFreeTrial(q)
                    THEN [users EXCEPT ![q.userId].free_trials_used = q.dval + 1]
                    ELSE [users EXCEPT ![q.userId].credits =
                                            Nullable(q.dval - CreditsPerGeneration)]
              /\ req' = [req EXCEPT ![r] =
                    [q EXCEPT !.pc = IF usesFreeTrial(q) THEN "dGen" ELSE "dHistory",
                              !.nFree = @ + (IF o = "ok" /\ usesFreeTrial(q) THEN 1 ELSE 0),
                              !.nCred = @ + (IF o = "ok" /\ ~usesFreeTrial(q) THEN 1 ELSE 0)]]
    /\ UNCHANGED <<cfg, reloads, generations, creditHistory, faults, init, normVars, transactions, txDeleted, nextTxId, polarVars, padVars>>

\* useCredits: the credit_history insert; its result is not looked at.
GenDebitHistory(r) ==
    /\ req[r].pc = "dHistory"
    /\ \E o \in StorageOutcomes :
          LET q == req[r]
          IN  /\ creditHistory' =
                    IF o # "ok" THEN creditHistory
                    ELSE Append(creditHistory,
                                [user_id |-> q.userId, amount |-> -CreditsPerGeneration,
                                 balance_before |-> q.dval,
                                 balance_after |-> q.dval - CreditsPerGeneration,
                                 reason |-> "generation_used"])
              /\ req' = [req EXCEPT ![r] =
                    [q EXCEPT !.pc = "dGen",
                              !.nHist = @ + (IF o = "ok" THEN 1 ELSE 0)]]
    /\ UNCHANGED <<cfg, reloads, users, generations, faults, init, normVars, transactions, txDeleted, nextTxId, polarVars, padVars>>

\* The generations row useFreeTrial / useCredits hand to createGeneration.
generationRow_Untagged(q, r) ==
    [user_id |-> q.userId, api_used |-> q.usedApi, category |-> q.category,
     credits_used |-> IF usesFreeTrial(q) THEN 0 ELSE CreditsPerGeneration,
     was_free_trial |-> FALSE, request |-> r]
generationRow(q, r) ==
    [user_id |-> q.userId, api_used |-> q.usedApi, category |-> q.category,
     credits_used |-> IF usesFreeTrial(q) THEN 0 ELSE CreditsPerGeneration,
     was_free_trial |-> usesFreeTrial(q), request |-> r]

\* createGeneration: the generations insert decides its result.  The
\* total_generations counter it then bumps is a column no balance depends on.
GenDebitGeneration(r) ==
    /\ req[r].pc = "dGen"
    /\ \E o \in StorageOutcomes :
          LET q == req[r]
              created == [success |-> (o = "ok"), code |-> "",
                          hasRemaining |-> ~usesFreeTrial(q),
                          credits_remaining |->
                              IF usesFreeTrial(q) THEN 0
                              ELSE q.dval - CreditsPerGeneration]
          IN  /\ generations' =
                    IF o # "ok" THEN generations
                    ELSE Append(generations, generationRow(q, r))
              /\ req' = [req EXCEPT ![r] =
                    AfterDebit([q EXCEPT !.nGen = @ + (IF o = "ok" THEN 1 ELSE 0)],
                               created)]
    /\ UNCHANGED <<cfg, reloads, users, creditHistory, faults, init, normVars, transactions, txDeleted, nextTxId, polarVars, padVars>>

\* The two fs.unlink of the try block, then the success response.  An
\* unlink that throws lands in catch (downloadError), which debits and
\* answers on its own.
GenUnlink(r) ==
    /\ req[r].pc = "unlink"
    /\ \E o \in UnlinkOutcomes :
          LET q == req[r]
          IN  req' = [req EXCEPT ![r] =
                    IF o = "ok"
                    THEN [q EXCEPT !.pc = "done", !.resp = SuccessResp(q)]
                    ELSE [q EXCEPT !.pc = "dRead", !.branch = "catch",
                                   !.nDebitCalls = q.nDebitCalls + 1]]
    /\ UNCHANGED <<cfg, reloads, users, generations, creditHistory, faults, init, normVars, transactions, txDeleted, nextTxId, polarVars, padVars>>

\* The enabled / active flags are changed from outside the request path.
ConfigReload ==
    /\ reloads < MaxReloads
    /\ \E a \in ApiSet, f \in {"enabled", "active"} :
          cfg' = [cfg EXCEPT ![a][f] = ~@]
    /\ reloads' = reloads + 1
    /\ UNCHANGED <<users, generations, creditHistory, req, faults, init, normVars, transactions, txDeleted, nextTxId, polarVars, padVars>>


(***************************************************************************)
(* Polar webhook (services/payment/webhookHandler.js).                     *)
(***************************************************************************)
\* A metadata value: absent, a number, or a string of characters.
MNone == [t |-> "none", n |-> 0, s |-> <<>>]
MNum(n) == [t |-> "num", n |-> n, s |-> <<>>]
MStr(s) == [t |-> "str", n |-> 0, s |-> s]

\* JavaScript truthiness and a || b.
Truthy(x) == (x.t = "num" /\ x.n # 0) \/ (x.t = "str" /\ x.s # <<>>)
JsOr(a, b) == IF Truthy(a) THEN a ELSE b

\* A JavaScript number that may be NaN.
NaN == [nan |-> TRUE, v |-> 0]
Num(n) == [nan |-> FALSE, v |-> n]

DigitChars == <<"0", "1", "2", "3", "4", "5", "6", "7", "8", "9">>
IsDigit(ch) == \E i \in 1..10 : DigitChars[i] = ch
DigitVal(ch) == (CHOOSE i \in 1..10 : DigitChars[i] = ch) - 1

\* The value of the longest prefix of digits of s, after acc.
RECURSIVE DigitsPrefix(_, _)
DigitsPrefix(s, acc) ==
    IF s = <<>> \/ ~IsDigit(Head(s)) THEN acc
    ELSE DigitsPrefix(Tail(s), 10 * acc + DigitVal(Head(s)))

\* parseInt: a number is itself, a string is an optional sign and its leading
\* digits, and NaN when there is none.
parseInt(x) ==
    IF x.t = "num" THEN Num(x.n)
    ELSE IF x.t = "none" THEN NaN
    ELSE LET neg == x.s # <<>> /\ Head(x.s) = "-"
             body == IF neg THEN Tail(x.s) ELSE x.s
         IN  IF body = <<>> \/ ~IsDigit(Head(body)) THEN NaN
             ELSE Num((IF neg THEN -1 ELSE 1) * DigitsPrefix(body, 0))

\* a + b of a number and a possibly-NaN number.
JsAdd(a, b) == IF b.nan THEN NaN ELSE Num(a + b.v)
\* A number as JSON carries it to the store: NaN becomes null.
ToJson(x) == IF x.nan THEN Null ELSE Nullable(x.v)

Meta(uid, uid2, plan, cr) ==
    [userId |-> uid, user_id |-> uid2, planCredits |-> plan, credits |-> cr]

\* The metadata an order may carry (set at checkout from the client's plan
\* details).
PaidOrderMeta == Meta("u1", "", MNum(2), MNone)
NegativeOrderMeta == Meta("u1", "", MNum(-1), MNone)
OrderMetas ==
    { PaidOrderMeta,
      NegativeOrderMeta,
      Meta("", "u1", MNone, MStr(<<"1">>)),
      Meta("", "", MNum(2), MNone),
      Meta("u9", "", MNum(1), MNone),
      Meta("u1", "", MNum(0), MNone),
      Meta("u1", "", MStr(<<"a">>), MNum(1)) }

EventTypes == {"order.created", "order.updated", "checkout.created", "other"}

IdleDel == [pc |-> "idle", etype |-> "", order |-> "", status |-> "",
            userId |-> "", creditsToAdd |-> Num(0), currentCredits |-> 0,
            newCredits |-> Num(0), txId |-> 0, resp |-> 0,
            inserted |-> FALSE, applied |-> FALSE, rolledBack |-> FALSE,
            failed |-> FALSE, dup |-> "", sig |-> "", nStorage |-> 0,
            customerEmail |-> "", variant |-> "", attach |-> ""]

Ack_ServerError(q, status) == [q EXCEPT !.pc = "done", !.resp = 500]
Ack(q, status) == [q EXCEPT !.pc = "done", !.resp = status]

\* One more storage call made for the delivery.
Stored(q) == [q EXCEPT !.nStorage = @ + 1]

\* validateEvent threw WebhookVerificationError.
verificationFailed_NeverThrown(sig) == FALSE
verificationFailed(sig) == sig = "bad"

\* The userId and the credit quantity handleOrderCreated reads from metadata.
metadataUserId(m) == IF m.userId # "" THEN m.userId ELSE m.user_id
metadataCredits(m) == parseInt(JsOr(JsOr(m.planCredits, m.credits), MNum(0)))

\* The events that reach the idempotency check: order.created with status
\* paid, and order.updated with status paid through handleOrderUpdated.
isPaidOrderEvent_AnyStatus(ty, st) == ty \in {"order.created", "order.updated"}
isPaidOrderEvent(ty, st) == ty \in {"order.created", "order.updated"} /\ st = "paid"

\* The router up to the first await of handleOrderCreated: signature
\* validation, the event switch, and the paid filter.
PolarReceive(d) ==
    /\ del[d].pc = "idle"
    /\ \E sig \in {"ok", "bad", "unparsable"}, ty \in EventTypes,
          o \in Orders, st \in {"paid", "pending"} :
          LET q0 == [del[d] EXCEPT !.sig = sig]
              q == [q0 EXCEPT !.etype = ty, !.order = o, !.status = st]
          IN  del' = [del EXCEPT ![d] =
                IF verificationFailed(sig) THEN Ack(q0, 403)
                ELSE IF sig = "unparsable" THEN Ack(q0, 200)
                ELSE IF isPaidOrderEvent(ty, st)
                THEN [q EXCEPT !.pc = "lookup"]
                ELSE Ack(q, 202)]
    /\ UNCHANGED <<users, transactions, txDeleted, nextTxId, orders, faults, init, normVars, genVars, padVars>>

\* .single() on transactions by order_id: a row only when exactly one matches.
existingTransaction(o) ==
    Cardinality({t \in transactions : t.order_id = o}) = 1

checkErrorThrown_Ignored(out) == FALSE

\* if (checkError && checkError.code !== 'PGRST116') throw checkError: the
\* lookup failed with a storage error other than 'no row found'.
checkErrorThrown(out) == out # "ok"

\* The idempotency check, then the metadata checks.
PolarLookup(d) ==
    /\ del[d].pc = "lookup"
    /\ \E out \in StorageOutcomes :
          LET q == [Stored(del[d]) EXCEPT !.failed = (out # "ok")]
              m == orders[q.order]
              userId == metadataUserId(m)
              creditsToAdd == metadataCredits(m)
          IN  del' = [del EXCEPT ![d] =
                IF out = "ok" /\ existingTransaction(q.order)
                THEN Ack([q EXCEPT !.dup = "lookup"], 202)
                ELSE IF checkErrorThrown(out) THEN Ack(q, 202)
                ELSE IF userId = "" THEN Ack(q, 202)
                ELSE IF ~creditsToAdd.nan /\ creditsToAdd.v = 0 THEN Ack(q, 202)
                ELSE [q EXCEPT !.pc = "fetch", !.userId = userId,
                               !.creditsToAdd = creditsToAdd]]
    /\ UNCHANGED <<users, transactions, txDeleted, nextTxId, orders, faults, init, normVars, genVars, padVars>>

\* The users select of handleOrderCreated.
PolarFetchUser(d) ==
    /\ del[d].pc = "fetch"
    /\ \E out \in StorageOutcomes :
          LET q == Stored(del[d])
          IN  del' = [del EXCEPT ![d] =
                IF out # "ok" THEN Ack([q EXCEPT !.failed = TRUE], 202)
                ELSE IF q.userId \notin UserIds THEN Ack(q, 202)
                ELSE LET currentCredits == ToNumber(users[q.userId].credits)
                     IN  [q EXCEPT !.pc = "insert",
                                   !.currentCredits = currentCredits,
                                   !.newCredits = JsAdd(currentCredits, q.creditsToAdd)]]
    /\ UNCHANGED <<users, transactions, txDeleted, nextTxId, orders, faults, init, normVars, genVars, padVars>>

\* The store's uniqueness of transactions.order_id (error 23505).
OrderIdTaken_NoConstraint(o) == FALSE
OrderIdTaken(o) == \E t \in transactions : t.order_id = o

\* The row handleOrderCreated inserts.  The insert body names no balance
\* column, so the row holds none.
polarTransaction_NoOrderId(q, id) ==
    [id |-> id, user_id |-> q.userId, order_id |-> "", transaction_id |-> "",
     credits_added |-> ToJson(q.creditsToAdd), payment_provider |-> "polar",
     balance_before |-> Null, balance_after |-> Null]
polarTransaction(q, id) ==
    [id |-> id, user_id |-> q.userId, order_id |-> q.order, transaction_id |-> "",
     credits_added |-> ToJson(q.creditsToAdd), payment_provider |-> "polar",
     balance_before |-> Null, balance_after |-> Null]

\* The transactions insert.
PolarInsertTx(d) ==
    /\ del[d].pc = "insert"
    /\ \E out \in StorageOutcomes :
          LET q == Stored(del[d])
              row == polarTransaction(q, nextTxId)
          IN  IF out # "ok"
              THEN /\ del' = [del EXCEPT ![d] = Ack([q EXCEPT !.failed = TRUE], 202)]
                   /\ UNCHANGED <<transactions, nextTxId>>
              ELSE IF OrderIdTaken(q.order)
              THEN /\ del' = [del EXCEPT ![d] = Ack([q EXCEPT !.dup = "insert"], 202)]
                   /\ UNCHANGED <<transactions, nextTxId>>
              ELSE /\ transactions' = transactions \cup {row}
                   /\ nextTxId' = nextTxId + 1
                   /\ del' = [del EXCEPT ![d] =
                                [q EXCEPT !.pc = "update", !.txId = nextTxId,
                                          !.inserted = TRUE]]
    /\ UNCHANGED <<users, txDeleted, orders, faults, init, normVars, genVars, padVars>>

\* The users update that adds the credits.
PolarUpdateCredits(d) ==
    /\ del[d].pc = "update"
    /\ \E out \in StorageOutcomes :
          LET q == Stored(del[d])
          IN  IF out = "ok"
              THEN /\ users' = [users EXCEPT ![q.userId].credits = ToJson(q.newCredits)]
                   /\ del' = [del EXCEPT ![d] = Ack([q EXCEPT !.applied = TRUE], 202)]
              ELSE /\ del' = [del EXCEPT ![d] =
                                [q EXCEPT !.pc = "rollback", !.failed = TRUE]]
                   /\ UNCHANGED users
    /\ UNCHANGED <<transactions, txDeleted, nextTxId, orders, faults, init, normVars, genVars, padVars>>

\* The rollback delete of the transactions row; its result is not looked at.
PolarRollback(d) ==
    /\ del[d].pc = "rollback"
    /\ \E out \in StorageOutcomes :
          LET q == Stored(del[d])
              gone == {t \in transactions : t.id = q.txId}
          IN  /\ transactions' = IF out = "ok" THEN transactions \ gone ELSE transactions
              /\ txDeleted' = IF out = "ok" THEN txDeleted \cup gone ELSE txDeleted
              /\ del' = [del EXCEPT ![d] =
                           Ack([q EXCEPT !.rolledBack = (out = "ok")], 202)]
    /\ UNCHANGED <<users, nextTxId, orders, faults, init, normVars, genVars, padVars>>

\* handleOrderCreated after the router, while storage works.
PolarHandle(d) ==
    \/ PolarLookup(d)
    \/ PolarFetchUser(d)
    \/ PolarInsertTx(d)
    \/ PolarUpdateCredits(d)

PolarStep(d) == PolarReceive(d) \/ PolarHandle(d)

\* The deliveries sent before d.
Earlier(d) == CASE d = "d1" -> {} [] d = "d2" -> {"d1"} [] OTHER -> {"d1", "d2"}

\* A delivery that arrives only after the earlier ones were answered.
PolarStepSeq(d) ==
    \/ (\A e \in Earlier(d) : del[e].pc = "done") /\ PolarReceive(d)
    \/ PolarHandle(d)

(***************************************************************************)
(* handleOrderCreated with contact attachment (unnamed/part_004): the      *)
(* auto-migrate variant and the passwordless variant.                      *)
(***************************************************************************)
AuthOutcomes == IF faults THEN {"ok", "error", "throw"} ELSE {"ok"}
SaveOutcomes == IF faults THEN {"ok", "err", "throw"} ELSE {"ok"}

\* if (currentUser.is_anonymous && customerEmail && !currentUser.email)
needsContact(user, customerEmail) ==
    user.is_anonymous /\ customerEmail # "" /\ user.email = ""

\* Where the handler goes when the attachment block is left: the
\* transactions insert, whatever the block's outcome.
afterAttach_Propagates(q, outcome) ==
    IF outcome = "ok" THEN [q EXCEPT !.pc = "insert", !.attach = outcome]
    ELSE Ack([q EXCEPT !.attach = outcome], 202)
afterAttach(q, outcome) == [q EXCEPT !.pc = "insert", !.attach = outcome]

\* The users select of the variants, then the attachment condition.
PolarFetchUserContact(d) ==
    /\ del[d].pc = "fetch"
    /\ \E out \in StorageOutcomes, customerEmail \in {"", "c@x"},
          variant \in {"auto-migrate", "passwordless"} :
          LET q == Stored(del[d])
          IN  del' = [del EXCEPT ![d] =
                IF out # "ok" THEN Ack([q EXCEPT !.failed = TRUE], 202)
                ELSE IF q.userId \notin UserIds THEN Ack(q, 202)
                ELSE LET currentUser == users[q.userId]
                         currentCredits == ToNumber(currentUser.credits)
                         q1 == [q EXCEPT !.currentCredits = currentCredits,
                                         !.newCredits = JsAdd(currentCredits, q.creditsToAdd),
                                         !.customerEmail = customerEmail,
                                         !.variant = variant]
                     IN  IF ~needsContact(currentUser, customerEmail)
                         THEN [q1 EXCEPT !.pc = "insert"]
                         ELSE IF variant = "auto-migrate"
                         THEN [q1 EXCEPT !.pc = "signUp"]
                         ELSE [q1 EXCEPT !.pc = "saveEmail"]]
    /\ UNCHANGED <<users, transactions, txDeleted, nextTxId, orders, faults, init, normVars, genVars, padVars>>

\* supabase.auth.signUp of the auto-migrate variant.
PolarSignUp(d) ==
    /\ del[d].pc = "signUp"
    /\ \E out \in AuthOutcomes :
          del' = [del EXCEPT ![d] =
                    IF out = "ok" THEN [@ EXCEPT !.pc = "saveEmail"]
                    ELSE afterAttach(@, out)]
    /\ UNCHANGED <<users, transactions, txDeleted, nextTxId, orders, faults, init, normVars, genVars, padVars>>

\* The users update that saves the email; its result is not looked at and
\* what it (or the password mail after it) throws is caught.
PolarSaveEmail(d) ==
    /\ del[d].pc = "saveEmail"
    /\ \E out \in SaveOutcomes :
          LET q == Stored(del[d])
          IN  /\ users' = IF out = "ok"
                          THEN [users EXCEPT ![q.userId].email = q.customerEmail,
                                             ![q.userId].is_anonymous = FALSE]
                          ELSE users
              /\ del' = [del EXCEPT ![d] = afterAttach(q, out)]
    /\ UNCHANGED <<transactions, txDeleted, nextTxId, orders, faults, init, normVars, genVars, padVars>>

PolarContactStep(d) ==
    \/ PolarReceive(d)
    \/ PolarLookup(d)
    \/ PolarFetchUserContact(d)
    \/ PolarSignUp(d)
    \/ PolarSaveEmail(d)
    \/ PolarInsertTx(d)
    \/ PolarUpdateCredits(d)
    \/ PolarRollback(d)

(***************************************************************************)
(* Paddle webhook (routes/paddleWebhook.js).                               *)
(***************************************************************************)
WeeklyPassCredits == 20
MonthlyProCredits == 50
YearlyVipCredits == 100
CreditsPackCredits == 200

\* PRICE_TO_CREDITS[priceId] || 0
PRICE_TO_CREDITS(priceId) ==
    CASE priceId = "weekly" -> WeeklyPassCredits
      [] priceId = "monthly" -> MonthlyProCredits
      [] priceId = "yearly" -> YearlyVipCredits
      [] priceId = "pack" -> CreditsPackCredits
      [] OTHER -> 0

\* The loop over transaction.items: credits * (quantity || 1) summed.
RECURSIVE totalCreditsOf(_)
totalCreditsOf(items) ==
    IF items = <<>> THEN 0
    ELSE PRICE_TO_CREDITS(Head(items).price)
           * (IF Head(items).quantity = 0 THEN 1 ELSE Head(items).quantity)
         + totalCreditsOf(Tail(items))

Item(p, n) == [price |-> p, quantity |-> n]
PaddleEvent(id, ty, em, items) ==
    [eventId |-> id, eventType |-> ty, email |-> em, items |-> items]

\* The events Paddle may deliver; email is what the customer lookup gives
\* ("" when the lookup fails or the customer has none).
PaddleEventInputs ==
    { PaddleEvent("e1", "transaction.completed", "u1@x", <<Item("weekly", 1)>>),
      PaddleEvent("e2", "transaction.completed", "u1@x", <<Item("unlisted", 2)>>),
      PaddleEvent("e3", "transaction.completed", "u9@x", <<Item("weekly", 0)>>),
      PaddleEvent("e4", "transaction.completed", "", <<Item("monthly", 1)>>),
      PaddleEvent("e5", "subscription.created", "u1@x", <<>>),
      PaddleEvent("e6", "other", "u1@x", <<>>) }

IdlePad == [pc |-> "idle", event |-> PaddleEvent("", "", "", <<>>),
            userId |-> "", userCredits |-> Null, totalCredits |-> 0,
            resp |-> 0, applied |-> FALSE, logged |-> FALSE, failed |-> FALSE,
            sig |-> "", nStorage |-> 0]

PadAck(q, status) == [q EXCEPT !.pc = "done", !.resp = status]

unmarshalFailed_NeverThrown(sig) == FALSE

\* paddle.webhooks.unmarshal threw.
unmarshalFailed(sig) == sig = "bad"

\* The route up to the dedupe lookup: header, secret, unmarshal.
PaddleReceive(p) ==
    /\ pad[p].pc = "idle"
    /\ \E sig \in {"ok", "none", "nosecret", "bad"}, ev \in PaddleEventInputs :
          LET q == [pad[p] EXCEPT !.sig = sig]
          IN  pad' = [pad EXCEPT ![p] =
                    CASE sig = "none" -> PadAck(q, 401)
                      [] sig = "nosecret" -> PadAck(q, 500)
                      [] unmarshalFailed(sig) -> PadAck(q, 400)
                      [] OTHER -> [q EXCEPT !.pc = "dedupe", !.event = ev]]
    /\ UNCHANGED <<users, transactions, txDeleted, nextTxId, paddleEvents,
                   faults, init, normVars, genVars, polarVars>>

\* .single() on paddle_events by event_id: a row only when exactly one
\* matches and the call works.
existingEvent(id) ==
    Cardinality({i \in 1..Len(paddleEvents) : paddleEvents[i].event_id = id}) = 1

PaddleDedupe(p) ==
    /\ pad[p].pc = "dedupe"
    /\ \E out \in StorageOutcomes :
          LET q == Stored(pad[p])
          IN  pad' = [pad EXCEPT ![p] =
                IF out = "ok" /\ existingEvent(q.event.eventId)
                THEN PadAck(q, 200)
                ELSE [q EXCEPT !.pc = "logEvent",
                               !.failed = q.failed \/ out # "ok"]]
    /\ UNCHANGED <<users, transactions, txDeleted, nextTxId, paddleEvents,
                   faults, init, normVars, genVars, polarVars>>

\* The paddle_events insert (result not looked at), then the event switch up
\* to the handler's first await.
PaddleLogEvent(p) ==
    /\ pad[p].pc = "logEvent"
    /\ \E out \in StorageOutcomes :
          LET q == Stored(pad[p])
              ty == q.event.eventType
          IN  /\ paddleEvents' =
                    IF out = "ok"
                    THEN Append(paddleEvents,
                                [event_id |-> q.event.eventId, processed |-> FALSE])
                    ELSE paddleEvents
              /\ pad' = [pad EXCEPT ![p] =
                    [q EXCEPT !.failed = q.failed \/ out # "ok",
                              !.pc = CASE ty = "transaction.completed" -> "email"
                                       [] ty = "subscription.created" -> "subscription"
                                       [] OTHER -> "mark"]]
    /\ UNCHANGED <<users, transactions, txDeleted, nextTxId,
                   faults, init, normVars, genVars, polarVars>>

\* getCustomerEmail.
PaddleCustomerEmail(p) ==
    /\ pad[p].pc = "email"
    /\ pad' = [pad EXCEPT ![p].pc = IF pad[p].event.email = "" THEN "mark" ELSE "user"]
    /\ UNCHANGED <<users, transactions, txDeleted, nextTxId, paddleEvents,
                   faults, init, normVars, genVars, polarVars>>

\* The users select by email, then the credits of the items.
PaddleFetchUser(p) ==
    /\ pad[p].pc = "user"
    /\ \E out \in StorageOutcomes :
          LET q == Stored(pad[p])
              found == {u \in UserIds : users[u].email = q.event.email}
              totalCredits == totalCreditsOf(q.event.items)
          IN  pad' = [pad EXCEPT ![p] =
                IF out # "ok" THEN [q EXCEPT !.pc = "mark", !.failed = TRUE]
                ELSE IF Cardinality(found) # 1 THEN [q EXCEPT !.pc = "mark"]
                ELSE IF totalCredits = 0 THEN [q EXCEPT !.pc = "mark"]
                ELSE LET u == CHOOSE u \in found : TRUE
                     IN  [q EXCEPT !.pc = "credit", !.userId = u,
                                   !.userCredits = users[u].credits,
                                   !.totalCredits = totalCredits]]
    /\ UNCHANGED <<users, transactions, txDeleted, nextTxId, paddleEvents,
                   faults, init, normVars, genVars, polarVars>>

\* The users update: credits: user.credits + totalCredits.
PaddleUpdateCredits(p) ==
    /\ pad[p].pc = "credit"
    /\ \E out \in StorageOutcomes :
          LET q == Stored(pad[p])
          IN  IF out = "ok"
              THEN /\ users' = [users EXCEPT ![q.userId].credits =
                                  Nullable(ToNumber(q.userCredits) + q.totalCredits)]
                   /\ pad' = [pad EXCEPT ![p] = [q EXCEPT !.pc = "txlog", !.applied = TRUE]]
              ELSE /\ pad' = [pad EXCEPT ![p] = [q EXCEPT !.pc = "mark", !.failed = TRUE]]
                   /\ UNCHANGED users
    /\ UNCHANGED <<transactions, txDeleted, nextTxId, paddleEvents,
                   faults, init, normVars, genVars, polarVars>>

\* The transactions insert; its result is not looked at.
PaddleLogTransaction(p) ==
    /\ pad[p].pc = "txlog"
    /\ \E out \in StorageOutcomes :
          LET q == Stored(pad[p])
              row == [id |-> nextTxId, user_id |-> q.userId, order_id |-> "",
                      transaction_id |-> q.event.eventId,
                      credits_added |-> Nullable(q.totalCredits),
                      payment_provider |-> "",
                      balance_before |-> Null, balance_after |-> Null]
          IN  /\ transactions' = IF out = "ok" THEN transactions \cup {row} ELSE transactions
              /\ nextTxId' = IF out = "ok" THEN nextTxId + 1 ELSE nextTxId
              /\ pad' = [pad EXCEPT ![p] =
                           [q EXCEPT !.pc = "mark", !.logged = (out = "ok"),
                                     !.failed = q.failed \/ out # "ok"]]
    /\ UNCHANGED <<users, txDeleted, paddleEvents, faults, init, normVars, genVars, polarVars>>

\* handleSubscriptionCreated: its storage calls touch only subscriptions.
PaddleSubscription(p) ==
    /\ pad[p].pc = "subscription"
    /\ pad' = [pad EXCEPT ![p] = [Stored(@) EXCEPT !.pc = "mark"]]
    /\ UNCHANGED <<users, transactions, txDeleted, nextTxId, paddleEvents,
                   faults, init, normVars, genVars, polarVars>>

\* The processed mark on every paddle_events row of the event, then 200.
PaddleMarkProcessed(p) ==
    /\ pad[p].pc = "mark"
    /\ \E out \in StorageOutcomes :
          LET q == Stored(pad[p])
          IN  /\ paddleEvents' =
                    IF out = "ok"
                    THEN [i \in 1..Len(paddleEvents) |->
                            IF paddleEvents[i].event_id = q.event.eventId
                            THEN [paddleEvents[i] EXCEPT !.processed = TRUE]
                            ELSE paddleEvents[i]]
                    ELSE paddleEvents
              /\ pad' = [pad EXCEPT ![p] =
                           PadAck([q EXCEPT !.failed = q.failed \/ out # "ok"], 200)]
    /\ UNCHANGED <<users, transactions, txDeleted, nextTxId,
                   faults, init, normVars, genVars, polarVars>>

PaddleStep(p) ==
    \/ PaddleReceive(p)
    \/ PaddleDedupe(p)
    \/ PaddleLogEvent(p)
    \/ PaddleCustomerEmail(p)
    \/ PaddleFetchUser(p)
    \/ PaddleUpdateCredits(p)
    \/ PaddleLogTransaction(p)
    \/ PaddleSubscription(p)
    \/ PaddleMarkProcessed(p)

(***************************************************************************)
(* Output normalizers of the two providers (nano-banana service in         *)
(* services/apiConfig.js, services/idmVtonService.js).                     *)
(***************************************************************************)
\* JavaScript values a provider output is made of.  A string is a sequence
\* of characters, an array a sequence of strings.
Undefined == [t |-> "undefined", s |-> <<>>, a |-> <<>>]
JsNull == [t |-> "null", s |-> <<>>, a |-> <<>>]
Str(s) == [t |-> "string", s |-> s, a |-> <<>>]
Arr(a) == [t |-> "array", s |-> <<>>, a |-> a]

Http == <<"h", "t", "t", "p">>
Url1 == Http \o <<"1">>
Url2 == Http \o <<"2">>
Padded == <<" ">> \o Url1 \o <<" ">>
DataText == <<"d", "a", "t", "a">>

urlFields == <<"url", "image", "output", "result", "images">>
urlFieldsIdmVton == <<"url", "image", "output", "result">>
FieldNames == {urlFields[i] : i \in 1..Len(urlFields)}

\* A provider output: a plain value, an object with the fields f, or a
\* ReadableStream whose text is a JSON array or is not JSON at all.
NoFields == [n \in FieldNames |-> Undefined]
Plain(v) == [t |-> v.t, s |-> v.s, a |-> v.a, f |-> NoFields]
Obj(f) == [t |-> "object", s |-> <<>>, a |-> <<>>, f |-> f]
StreamOfJsonArray(a) == [t |-> "stream-json-array", s |-> <<>>, a |-> a, f |-> NoFields]
StreamOfText(s) == [t |-> "stream-text", s |-> s, a |-> <<>>, f |-> NoFields]
Value(out) == [t |-> out.t, s |-> out.s, a |-> out.a]

FieldValues == {Undefined, Str(<<>>), Str(Url1), Arr(<<Url2>>), Arr(<<>>)}
Outputs ==
    {Plain(v) : v \in {Undefined, JsNull, Str(<<>>), Str(Url1), Str(DataText),
                       Arr(<<>>), Arr(<<Url1>>), Arr(<<Url2, Url1>>)}}
    \cup {Obj(f) : f \in [FieldNames -> FieldValues]}
    \cup {StreamOfJsonArray(<<>>), StreamOfJsonArray(<<Url1>>),
          StreamOfText(Url1), StreamOfText(Padded)}

\* if (value): the empty string, null and undefined are falsy, every array
\* is truthy.
JsTruthy(v) == v.t = "array" \/ (v.t = "string" /\ v.s # <<>>)
startsWith(s, prefix) ==
    Len(s) >= Len(prefix) /\ SubSeq(s, 1, Len(prefix)) = prefix
\* array[i - 1] of the source.
Element(a, i) == IF i <= Len(a) THEN Str(a[i]) ELSE Undefined
\* typeof x === 'object' && x !== null
IsObject(out) == out.t \in {"object", "array", "stream-json-array", "stream-text"}

RECURSIVE TrimStart(_)
TrimStart(s) == IF s # <<>> /\ Head(s) = " " THEN TrimStart(Tail(s)) ELSE s
RECURSIVE TrimEnd(_)
TrimEnd(s) ==
    IF s # <<>> /\ s[Len(s)] = " " THEN TrimEnd(SubSeq(s, 1, Len(s) - 1)) ELSE s
trim(s) == TrimEnd(TrimStart(s))

\* for (const field of fields) if (output[field]) ...: the first truthy
\* field's value, Undefined when the loop ends without one.
RECURSIVE FirstTruthyField(_, _)
FirstTruthyField(f, fields) ==
    IF fields = <<>> THEN Undefined
    ELSE IF JsTruthy(f[Head(fields)]) THEN f[Head(fields)]
    ELSE FirstTruthyField(f, Tail(fields))

NotExtracted == [done |-> FALSE, ok |-> FALSE, v |-> Undefined]
Extracted(v) == [done |-> TRUE, ok |-> TRUE, v |-> v]
ExtractionFailed == [done |-> TRUE, ok |-> FALSE, v |-> Undefined]
NoOutput == Plain(Undefined)

processNanoBananaOutput(out) ==
    IF out.t = "array"
    THEN IF Len(out.a) > 0 THEN Extracted(Element(out.a, 1)) ELSE ExtractionFailed
    ELSE IF out.t = "string" /\ startsWith(out.s, Http) THEN Extracted(Value(out))
    ELSE IF IsObject(out)
    THEN LET value == FirstTruthyField(out.f, urlFields)
         IN  IF ~JsTruthy(value) THEN ExtractionFailed
             ELSE IF value.t = "array" THEN Extracted(Element(value.a, 1))
             ELSE Extracted(value)
    ELSE ExtractionFailed

processReplicateOutput(out) ==
    IF out.t = "stream-json-array" THEN Extracted(Element(out.a, 1))
    ELSE IF out.t = "stream-text" THEN Extracted(Str(trim(out.s)))
    ELSE IF out.t = "array" /\ Len(out.a) > 0 THEN Extracted(Element(out.a, 1))
    ELSE IF out.t = "string" THEN Extracted(Value(out))
    ELSE IF IsObject(out)
    THEN LET value == FirstTruthyField(out.f, urlFieldsIdmVton)
         IN  IF ~JsTruthy(value) THEN ExtractionFailed ELSE Extracted(value)
    ELSE ExtractionFailed

\* processWithNanoBanana / processWithIdmVton hand the output of
\* replicate.run to their normalizer.
NormalizeNanoBanana ==
    /\ ~locator["nano-banana"].done
    /\ locator' = [locator EXCEPT !["nano-banana"] = processNanoBananaOutput(output)]
    /\ UNCHANGED <<output, users, transactions, txDeleted, nextTxId, faults, init,
                   genVars, polarVars, padVars>>

NormalizeIdmVton ==
    /\ ~locator["idm-vton"].done
    /\ locator' = [locator EXCEPT !["idm-vton"] = processReplicateOutput(output)]
    /\ UNCHANGED <<output, users, transactions, txDeleted, nextTxId, faults, init,
                   genVars, polarVars, padVars>>

(***************************************************************************)
(* Specifications.                                                         *)
(***************************************************************************)
\* apiConfig as the source file ships it.
apiConfig ==
    [a \in ApiSet |-> IF a = "nano-banana"
                      THEN [enabled |-> TRUE, active |-> TRUE]
                      ELSE [enabled |-> FALSE, active |-> FALSE]]

AllConfigs == [ApiSet -> [enabled : BOOLEAN, active : BOOLEAN]]

SameMeta(metas) == {[o \in Orders |-> m] : m \in metas}

\* An account is anonymous (no email) or registered with an email.
InitStoreOutputs(f, configs, trials, orderChoices, emails, outputs) ==
    /\ cfg \in configs
    /\ reloads = 0
    /\ \E c \in 0..MaxInitCredits, t \in trials, e \in emails :
          users = [u \in UserIds |->
                     [credits |-> Nullable(c), free_trials_used |-> t,
                      free_trials_limit |-> FreeTrialsLimit, email |-> e,
                      is_anonymous |-> (e = "")]]
    /\ generations = <<>>
    /\ creditHistory = <<>>
    /\ req = [r \in Reqs |-> IdleReq]
    /\ transactions = {}
    /\ txDeleted = {}
    /\ nextTxId = 1
    /\ orders \in orderChoices
    /\ del = [d \in Dels |-> IdleDel]
    /\ paddleEvents = <<>>
    /\ pad = [p \in Pads |-> IdlePad]
    /\ faults = f
    /\ init = users
    /\ output \in outputs
    /\ locator = [a \in ApiSet |-> NotExtracted]

InitStoreWith(f, configs, trials, orderChoices, emails) ==
    InitStoreOutputs(f, configs, trials, orderChoices, emails, {NoOutput})

InitStore(f, configs, trials, orderChoices) ==
    InitStoreWith(f, configs, trials, orderChoices, {"u1@x"})

GenStep(r) ==
    \/ GenStart(r)
    \/ GenBalanceCheck(r)
    \/ GenProviderReturn(r)
    \/ GenDownload(r)
    \/ GenDebitRead(r)
    \/ GenDebitWrite(r)
    \/ GenDebitHistory(r)
    \/ GenDebitGeneration(r)
    \/ GenUnlink(r)

\* Concurrent generation requests on one account under the shipped
\* configuration; storage and file removal work.
InitGen == InitStore(FALSE, {apiConfig}, 0..FreeTrialsLimit, SameMeta({PaidOrderMeta}))
NextGen == \E r \in Reqs : GenStep(r)
SpecGen == InitGen /\ [][NextGen]_vars

\* One generation request under every configuration, with configuration
\* changes while it runs.
InitProv == InitStore(FALSE, AllConfigs, 0..FreeTrialsLimit, SameMeta({PaidOrderMeta}))
NextProv == GenStep("r1") \/ ConfigReload
SpecProv == InitProv /\ [][NextProv]_vars

\* Every provider output handed to both normalizers.
InitNorm == InitStoreOutputs(FALSE, {apiConfig}, {0}, SameMeta({PaidOrderMeta}), {"u1@x"}, Outputs)
NextNorm == NormalizeNanoBanana \/ NormalizeIdmVton
SpecNorm == InitNorm /\ [][NextNorm]_vars

\* Polar deliveries processed one after another; storage works.
InitPolar == InitStore(FALSE, {apiConfig}, {0}, [Orders -> OrderMetas])
NextPolarSeq == \E d \in Dels : PolarStepSeq(d)
SpecPolarSeq == InitPolar /\ [][NextPolarSeq]_vars

\* Two Polar deliveries processed concurrently; storage works.
NextPolar == PolarStep("d1") \/ PolarStep("d2")
SpecPolar == InitPolar /\ [][NextPolar]_vars

\* One Polar and one Paddle delivery, with storage calls that may fail.
InitHookFault == InitStore(TRUE, {apiConfig}, {0}, SameMeta(OrderMetas))
NextHookFault == PolarStep("d1") \/ PolarRollback("d1") \/ PaddleStep("p1")
SpecHookFault == InitHookFault /\ [][NextHookFault]_vars

\* One generation request, one Polar and one Paddle delivery, interleaved;
\* storage works.
InitLedger == InitStore(FALSE, {apiConfig}, 0..FreeTrialsLimit,
                        SameMeta({PaidOrderMeta, NegativeOrderMeta}))
NextLedger == GenStep("r1") \/ PolarStep("d1") \/ PaddleStep("p1")
SpecLedger == InitLedger /\ [][NextLedger]_vars

\* One Polar delivery through the handler with contact attachment; storage
\* and authentication calls may fail.
InitContact == InitStoreWith(TRUE, {apiConfig}, {0}, SameMeta(OrderMetas), {"", "u1@x"})
NextContact == PolarContactStep("d1")
SpecContact == InitContact /\ [][NextContact]_vars

(***************************************************************************)
(* Properties.                                                             *)
(***************************************************************************)
Account == users["u1"]
InitAccount == init["u1"]
Answered(r) == req[r].pc = "done"
Succeeded(r) == Answered(r) /\ req[r].resp.success
RejectedNoCredits(r) == Answered(r) /\ req[r].resp.code = "NO_CREDITS"
AutoMode(r) == req[r].api = ""
SomeCall(r, res) == \E i \in 1..Len(req[r].calls) : req[r].calls[i].res = res
NoCallSucceeded(r) == \A i \in 1..Len(req[r].calls) : req[r].calls[i].res # "ok"

\* C1: an account with one credit and no free trial left, two requests that
\* both end as a success or a NO_CREDITS rejection: exactly one of each.
C1_OneSuccessOneNoBalance ==
    ( /\ ToNumber(InitAccount.credits) = 1
      /\ InitAccount.free_trials_used = InitAccount.free_trials_limit
      /\ \A r \in Reqs : Succeeded(r) \/ RejectedNoCredits(r) )
    => /\ Cardinality({r \in Reqs : Succeeded(r)}) = 1
       /\ Cardinality({r \in Reqs : RejectedNoCredits(r)}) = 1

\* C8: in auto-selection mode, a request whose first provider call failed
\* and whose later call to another provider returned a result is answered
\* with success, usedApi = that provider and fallback = true.
C8_FallbackReported ==
    \A r \in Reqs :
        ( /\ Answered(r) /\ AutoMode(r)
          /\ Len(req[r].calls) >= 2
          /\ req[r].calls[1].res = "fail"
          /\ req[r].calls[Len(req[r].calls)].res = "ok" )
        => /\ req[r].resp.success
           /\ req[r].resp.usedApi = req[r].calls[Len(req[r].calls)].api
           /\ req[r].resp.usedApi # req[r].calls[1].api
           /\ req[r].resp.fallback

C8_Witness ==
    /\ Answered("r1") /\ AutoMode("r1")
    /\ req["r1"].calls = <<[api |-> "idm-vton", res |-> "fail"],
                           [api |-> "nano-banana", res |-> "ok"]>>
    /\ req["r1"].resp.usedApi = "nano-banana"
    /\ req["r1"].resp.fallback

\* C9: in auto-selection mode, a request all of whose provider calls failed
\* is answered with the all-providers-failed error and has written nothing:
\* the account, the generations and the credit history are as before.
C9_ExhaustionNoDebit ==
    \A r \in Reqs :
        ( /\ Answered(r) /\ AutoMode(r)
          /\ SomeCall(r, "fail") /\ NoCallSucceeded(r) )
        => /\ ~req[r].resp.success
           /\ req[r].resp.status = 500
           /\ req[r].resp.code = "All APIs failed to process the image"
           /\ req[r].nDebitCalls = 0
           /\ req[r].nFree = 0 /\ req[r].nCred = 0
           /\ req[r].nHist = 0 /\ req[r].nGen = 0
           /\ users = init /\ generations = <<>> /\ creditHistory = <<>>

C9_Witness ==
    /\ Answered("r1") /\ AutoMode("r1")
    /\ Len(req["r1"].calls) = 2
    /\ req["r1"].calls[1].res = "fail" /\ req["r1"].calls[2].res = "fail"
    /\ req["r1"].resp.code = "All APIs failed to process the image"
    /\ ToNumber(Account.credits) > 0

\* C10: a request whose balance check found a free trial left is never
\* rejected for lack of balance and never touches the credits, whatever
\* their value; when its debit still finds the trial unused it consumes it
\* (free_trials_used written as the value read plus 1, one free-trial
\* generation row), and a request running alone leaves free_trials_used one
\* higher and the credits as they were.
C10_FreeTrialFirst ==
    \A r \in Reqs :
        req[r].hasFreeTrial =>
            /\ ~RejectedNoCredits(r)
            /\ req[r].nCred = 0 /\ req[r].nHist = 0
            /\ (Succeeded(r) /\ req[r].genResult.code # "NO_FREE_TRIALS")
                   => /\ req[r].nFree = 1
                      /\ Account.free_trials_used = req[r].dval + 1
                      /\ \E i \in 1..Len(generations) :
                            /\ generations[i].request = r
                            /\ generations[i].was_free_trial
                            /\ generations[i].credits_used = 0
            /\ (Succeeded(r) /\ \A o \in Reqs \ {r} : req[o].pc = "idle")
                   => /\ Account.free_trials_used = InitAccount.free_trials_used + 1
                      /\ Account.credits = InitAccount.credits

C10_Witness ==
    /\ Succeeded("r1") /\ req["r1"].hasFreeTrial /\ req["r1"].hasCredits
    /\ req["r2"].pc = "idle"
    /\ Account.free_trials_used = 1 /\ InitAccount.free_trials_used = 0
    /\ ToNumber(Account.credits) = 2

(***************************************************************************)
(* Webhook credits and the ledger.                                         *)
(***************************************************************************)
RECURSIVE SetSum(_, _)
SetSum(S, f) ==
    IF S = {} THEN 0
    ELSE LET x == CHOOSE x \in S : TRUE IN f[x] + SetSum(S \ {x}, f)
RECURSIVE SeqSum(_, _)
SeqSum(s, f) == IF s = <<>> THEN 0 ELSE f[Head(s)] + SeqSum(Tail(s), f)

PaidOrderDelivery(d) ==
    del[d].etype \in {"order.created", "order.updated"} /\ del[d].status = "paid"
Processed(d) == del[d].pc = "done" /\ PaidOrderDelivery(d)
WellFormed(o) ==
    /\ metadataUserId(orders[o]) \in UserIds
    /\ ~metadataCredits(orders[o]).nan
    /\ metadataCredits(orders[o]).v > 0
Purchased(o) == metadataCredits(orders[o]).v
RowsOf(o) == {t \in transactions : t.order_id = o}
AppliedFor(o) == {d \in Dels : del[d].applied /\ del[d].order = o}
DeliveredOrders == {o \in Orders : \E d \in Dels : Processed(d) /\ del[d].order = o}
PolarQuiet == \A d \in Dels : del[d].pc \in {"idle", "done"}
PaddleQuiet == \A p \in Pads : pad[p].pc \in {"idle", "done"}
GenQuiet == \A r \in Reqs : req[r].pc \in {"idle", "done"}
Quiescent == PolarQuiet /\ PaddleQuiet /\ GenQuiet

\* C2: between sequential deliveries, every well-formed paid order that was
\* delivered at least once has exactly one transactions row and was credited
\* by exactly one delivery; when all delivered orders are well-formed the
\* balance is the initial one plus each delivered order's quantity once.
C2_SequentialDeliveriesCreditOnce ==
    PolarQuiet =>
       /\ \A o \in DeliveredOrders :
             WellFormed(o) => /\ Cardinality(RowsOf(o)) = 1
                              /\ Cardinality(AppliedFor(o)) = 1
       /\ (\A o \in DeliveredOrders : WellFormed(o))
             => Account.credits =
                  Nullable(ToNumber(InitAccount.credits)
                           + SetSum(DeliveredOrders, [o \in Orders |-> Purchased(o)]))
C2_Witness ==
    /\ PolarQuiet
    /\ \E o \in Orders :
          /\ WellFormed(o)
          /\ \A d \in Dels : Processed(d) /\ del[d].order = o
          /\ \E d, e \in Dels : del[d].etype = "order.created" /\ del[e].etype = "order.updated"
          /\ Cardinality(RowsOf(o)) = 1
          /\ Account.credits = Nullable(ToNumber(InitAccount.credits) + Purchased(o))

\* C3: when two concurrent deliveries of the same well-formed paid order have
\* both been answered, the order has exactly one transactions row, exactly
\* one of the deliveries credited the account, and the balance rose by the
\* purchased quantity once.
C3_ConcurrentDeliveriesCreditOnce ==
    \A o \in Orders :
       ( /\ WellFormed(o)
         /\ \A d \in {"d1", "d2"} : Processed(d) /\ del[d].order = o )
       => /\ Cardinality(RowsOf(o)) = 1
          /\ Cardinality(AppliedFor(o)) = 1
          /\ Account.credits = Nullable(ToNumber(InitAccount.credits) + Purchased(o))
C3_Witness ==
    \E o \in Orders, d, e \in {"d1", "d2"} :
       /\ WellFormed(o)
       /\ Processed(d) /\ del[d].order = o /\ del[d].applied
       /\ Processed(e) /\ del[e].order = o /\ del[e].dup = "insert"
       /\ Cardinality(RowsOf(o)) = 1

\* C4: the balance is never negative (nor lost) and the free trials used
\* never exceed the limit.
C4_BalanceNeverNegative ==
    /\ ~Account.credits.isnull
    /\ Account.credits.v >= 0
    /\ Account.free_trials_used <= Account.free_trials_limit

\* What the webhooks added and what the requests took, as each handler
\* computed it.
Credited ==
    SetSum({d \in Dels : del[d].applied}, [d \in Dels |-> del[d].creditsToAdd.v])
    + SetSum({p \in Pads : pad[p].applied}, [p \in Pads |-> pad[p].totalCredits])
Debited == SetSum(Reqs, [r \in Reqs |-> req[r].nCred * CreditsPerGeneration])

\* C5: when nothing is in flight the balance is the initial balance plus what
\* the webhooks credited minus what the requests debited.
C5_NoLostUpdate ==
    Quiescent =>
       Account.credits = Nullable(ToNumber(InitAccount.credits) + Credited - Debited)

\* C6: when nothing is in flight the balance is the initial balance plus the
\* signed amounts of the recorded entries.
C6_BalanceIsSumOfEntries ==
    Quiescent =>
       Account.credits =
          Nullable(ToNumber(InitAccount.credits)
                   + SetSum(transactions,
                            [t \in transactions |-> ToNumber(t.credits_added)])
                   + SeqSum(creditHistory,
                            [h \in {creditHistory[i] : i \in 1..Len(creditHistory)}
                               |-> h.amount]))

\* C7: when a webhook credit application has finished, the transaction record
\* of that delivery exists exactly when that delivery increased the credits.
C7_RecordIffCredited ==
    /\ \A d \in Dels :
          Processed(d) =>
             ((\E t \in transactions : del[d].inserted /\ t.id = del[d].txId)
                <=> del[d].applied)
    /\ \A p \in Pads :
          pad[p].pc = "done" => (pad[p].logged <=> pad[p].applied)

(***************************************************************************)
(* Rejections, free trials, paid orders.                                   *)
(***************************************************************************)
BalanceRead(r) == req[r].user.ftl > 0
GenerationsOf(r) == {i \in 1..Len(generations) : generations[i].request = r}
FreeTrialRows == {i \in 1..Len(generations) : generations[i].was_free_trial}
OthersWroteNothing(r) ==
    \A o \in Reqs \ {r} : req[o].nFree = 0 /\ req[o].nCred = 0 /\ req[o].nGen = 0

\* C11: a request whose balance check read free_trials_used =
\* free_trials_limit and credits = 0 is answered 403 NO_CREDITS, no provider
\* was invoked for it, and it made no debit: no useFreeTrial / useCredits
\* call, no account write, no credit history, no generation row.
C11_NoBalanceRejected ==
    \A r \in Reqs :
        ( /\ BalanceRead(r)
          /\ req[r].user.ftu = req[r].user.ftl
          /\ req[r].user.credits = Nullable(0) )
        => /\ RejectedNoCredits(r)
           /\ req[r].resp.status = 403
           /\ req[r].calls = <<>>
           /\ req[r].nDebitCalls = 0
           /\ req[r].nFree = 0 /\ req[r].nCred = 0
           /\ req[r].nHist = 0 /\ req[r].nGen = 0
C11_Witness ==
    /\ InitAccount.credits = Nullable(0)
    /\ InitAccount.free_trials_used = InitAccount.free_trials_limit
    /\ \A r \in Reqs : RejectedNoCredits(r) /\ BalanceRead(r)
    /\ users = init /\ generations = <<>> /\ creditHistory = <<>>

C13_PaidOrderEntryHoldsBalances ==
    PolarQuiet =>
       \A o \in Orders :
          (DeliveredOrders = {o} /\ WellFormed(o)) =>
             LET C == ToNumber(InitAccount.credits)
                 A == Purchased(o)
             IN  /\ Account.credits = Nullable(C + A)
                 /\ Cardinality(RowsOf(o)) = 1
                 /\ \A t \in RowsOf(o) :
                       /\ t.credits_added = Nullable(A)
                       /\ t.balance_before = Nullable(C)
                       /\ t.balance_after = Nullable(C + A)

IsPrefix(s, t) == Len(s) <= Len(t) /\ \A i \in 1..Len(s) : s[i] = t[i]

\* C14: no step deletes or changes a recorded entry: every transactions row
\* stays as written, and credit_history only grows at its end.
C14_EntriesAppendOnly ==
    [][ /\ transactions \subseteq transactions'
        /\ IsPrefix(creditHistory, creditHistory') ]_vars

(***************************************************************************)
(* Webhook deliveries: signature, event filter, metadata, acknowledgment.  *)
(***************************************************************************)
Success2xx == {200, 202}
PolarRejected(d) == del[d].pc = "done" /\ del[d].sig = "bad"
PaddleRejected(p) == pad[p].pc = "done" /\ pad[p].sig \in {"none", "bad"}
PolarVerified(d) == del[d].pc = "done" /\ del[d].sig \in {"ok", "unparsable"}
PaddleVerified(p) == pad[p].pc = "done" /\ pad[p].sig = "ok"

\* C15: a delivery whose signature is missing or does not verify is answered
\* with an error status (403 for Polar; 401 or 400 for Paddle), not with a
\* success acknowledgment, and made no storage call: it read and wrote no
\* account, no transactions row and no event record.
C15_InvalidSignatureRejected ==
    /\ \A d \in Dels :
          PolarRejected(d) =>
             /\ del[d].resp = 403 /\ del[d].resp \notin Success2xx
             /\ del[d].nStorage = 0 /\ ~del[d].inserted /\ ~del[d].applied
    /\ \A p \in Pads :
          PaddleRejected(p) =>
             /\ pad[p].resp \in {400, 401} /\ pad[p].resp \notin Success2xx
             /\ pad[p].nStorage = 0 /\ ~pad[p].applied /\ ~pad[p].logged
    /\ (\A d \in Dels : del[d].pc = "idle" \/ PolarRejected(d))
       /\ (\A p \in Pads : pad[p].pc = "idle" \/ PaddleRejected(p))
          => users = init /\ transactions = {} /\ paddleEvents = <<>>
C15_Witness ==
    /\ PolarRejected("d1") /\ del["d1"].resp = 403
    /\ PaddleRejected("p1") /\ pad["p1"].sig = "bad" /\ pad["p1"].resp = 400
    /\ users = init /\ transactions = {} /\ paddleEvents = <<>>

\* C16: a verified Polar delivery that is not an order.created /
\* order.updated with status paid, and a verified Paddle delivery that is not
\* a completed transaction, is acknowledged and neither wrote a transactions
\* row nor changed credits; the accounts and the transactions differ from
\* the start only when a paid order delivery or a completed transaction
\* delivery wrote them.
C16_OnlyPaidEventsCredit ==
    /\ \A d \in Dels :
          (PolarVerified(d) /\ ~PaidOrderDelivery(d)) =>
             /\ del[d].resp \in Success2xx
             /\ del[d].nStorage = 0 /\ ~del[d].inserted /\ ~del[d].applied
    /\ \A p \in Pads :
          (PaddleVerified(p) /\ pad[p].event.eventType # "transaction.completed") =>
             /\ pad[p].resp = 200 /\ ~pad[p].applied /\ ~pad[p].logged
    /\ (users # init \/ transactions # {} \/ txDeleted # {}) =>
          \/ \E d \in Dels : PaidOrderDelivery(d) /\ del[d].inserted
          \/ \E p \in Pads : /\ pad[p].event.eventType = "transaction.completed"
                             /\ pad[p].applied
C16_Witness ==
    /\ PolarVerified("d1") /\ del["d1"].etype = "order.updated"
    /\ del["d1"].status = "pending" /\ del["d1"].resp = 202
    /\ PaddleVerified("p1") /\ pad["p1"].event.eventType = "subscription.created"
    /\ users = init /\ transactions = {}

\* The metadata C17 calls malformed: no account id, or a quantity that is
\* not a positive integer.
Malformed(o) ==
    \/ metadataUserId(orders[o]) = ""
    \/ metadataCredits(orders[o]).nan
    \/ metadataCredits(orders[o]).v <= 0

\* C17: a paid order with malformed metadata never gets a transactions row
\* and no delivery of it changes credits.
C17_MalformedOrderIsTerminal ==
    \A o \in Orders :
       Malformed(o) =>
          /\ RowsOf(o) = {}
          /\ \A d \in Dels : del[d].order = o => ~del[d].inserted /\ ~del[d].applied

C19_AttachmentNeverBlocksCredit ==
    \A d \in Dels :
       del[d].attach # "" =>
          /\ del[d].pc \in {"insert", "update", "rollback", "done"}
          /\ (del[d].pc = "done" /\ ~del[d].failed) =>
                /\ del[d].inserted /\ del[d].applied
                /\ \E t \in transactions : t.id = del[d].txId /\ t.order_id = del[d].order
                /\ Account.credits = ToJson(del[d].newCredits)
C19_Witness ==
    \E d \in Dels :
       /\ del[d].pc = "done" /\ del[d].attach \in {"error", "throw", "err"}
       /\ WellFormed(del[d].order)
       /\ del[d].inserted /\ del[d].applied
       /\ Account.credits = Nullable(ToNumber(InitAccount.credits) + Purchased(del[d].order))
       /\ Account.email = ""

(***************************************************************************)
(* Provider selection.                                                     *)
(***************************************************************************)
EnabledAndActive == {a \in ApiSet : cfg[a].enabled /\ cfg[a].active}

\* C20: the step in which an auto-mode request selects its provider selects
\* one that is enabled and active, and starts its call; when no provider is
\* enabled and active the request fails with 'No active API available' and
\* no provider is invoked.  Every later call of the request is started for a
\* provider that is enabled and active as well.
C20_SelectionAmongEnabledActive ==
    [][ \A r \in Reqs :
          LET q == req[r]
              q2 == req'[r]
          IN  /\ (q.pc = "check" /\ q2.category \in Categories /\ q2.api = "") =>
                    IF EnabledAndActive = {}
                    THEN /\ q2.pc = "done" /\ ~q2.resp.success
                         /\ q2.resp.code = "No active API available"
                         /\ q2.calls = <<>>
                         /\ q2.nDebitCalls = 0
                    ELSE /\ q2.selected \in EnabledAndActive
                         /\ q2.calls = <<[api |-> q2.selected, res |-> "call"]>>
              /\ (q2.api = "" /\ Len(q2.calls) > Len(q.calls)) =>
                    \A i \in (Len(q.calls) + 1)..Len(q2.calls) :
                       q2.calls[i].res = "call" => q2.calls[i].api \in EnabledAndActive
      ]_vars
C20_Witness ==
    /\ Answered("r1") /\ AutoMode("r1") /\ req["r1"].category \in Categories
    /\ req["r1"].resp.code = "No active API available"
    /\ req["r1"].calls = <<>>
    /\ \E a \in ApiSet : cfg[a].enabled /\ ~cfg[a].active
    /\ reloads = 0

(***************************************************************************)
(* Provider ranking.                                                       *)
(***************************************************************************)
\* apiConfig[provider].priority[category] as the source file ships it.
priority(a, category) == IF a = "nano-banana" THEN 1 ELSE 2

\* Position of a provider in the registration order.
RegistrationIndex(a) == CHOOSE i \in 1..Len(Apis) : Apis[i] = a

\* The enabled-and-active providers no other enabled-and-active provider
\* outranks for the category, ties going to the earlier registration.
LowestRanked(c, category) ==
    {a \in ApiSet :
       /\ c[a].enabled /\ c[a].active
       /\ \A b \in ApiSet :
             (c[b].enabled /\ c[b].active) =>
                \/ priority(a, category) < priority(b, category)
                \/ /\ priority(a, category) = priority(b, category)
                   /\ RegistrationIndex(a) <= RegistrationIndex(b)}

\* C21: the provider an auto-mode request selects is the enabled-and-active
\* provider with the lowest configured priority rank for the request's
\* category, ties broken by registration order.
C21_SelectionByConfiguredRank ==
    [][ \A r \in Reqs :
          (req[r].pc = "check" /\ req'[r].api = "" /\ req'[r].selected # "") =>
             req'[r].selected \in LowestRanked(cfg, req'[r].category)
      ]_vars

(***************************************************************************)
(* Caller-named provider.                                                  *)
(***************************************************************************)
NamedMode(r) == req[r].api # ""

\* C22: the step in which a request that names a provider reaches
\* processWithSpecificApi enters that provider only if its enabled flag is
\* true; for a name that is not configured or not enabled the request fails
\* with 'API ... is not enabled' and no provider is entered.
C22_SpecificApiOnlyWhenEnabled ==
    [][ \A r \in Reqs :
          LET q == req[r]
              q2 == req'[r]
              enabled == q2.api \in ApiSet /\ cfg[q2.api].enabled
          IN  (q.pc = "check" /\ q2.api # "") =>
                 /\ q2.calls # <<>> => enabled
                 /\ ~enabled =>
                       /\ q2.pc = "done" /\ ~q2.resp.success
                       /\ q2.resp.status = 500
                       /\ q2.resp.code = "API is not enabled"
                       /\ q2.calls = <<>>
                 /\ (enabled /\ cfg[q2.api].active) =>
                       /\ q2.pc = "calling"
                       /\ q2.calls = <<[api |-> q2.api, res |-> "call"]>>
      ]_vars
C22_Witness ==
    /\ Answered("r1") /\ NamedMode("r1")
    /\ req["r1"].api = "idm-vton"
    /\ ~cfg["idm-vton"].enabled /\ cfg["idm-vton"].active
    /\ cfg["nano-banana"].enabled /\ cfg["nano-banana"].active
    /\ reloads = 0
    /\ req["r1"].resp.code = "API is not enabled"
    /\ req["r1"].calls = <<>>

(***************************************************************************)
(* Validation of a generation request.                                     *)
(***************************************************************************)
ClientErrors == 400..499
ValidationCodes == {"AUTH_REQUIRED", "USER_NOT_FOUND", "FILES", "CATEGORY"}
WroteNothing(r) ==
    /\ req[r].nFree = 0 /\ req[r].nCred = 0 /\ req[r].nHist = 0
    /\ req[r].nGen = 0 /\ req[r].nDebitCalls = 0
StoreUntouched == users = init /\ generations = <<>> /\ creditHistory = <<>>

\* C23: a request without user id, for an unknown user, without both images
\* or with a category outside the closed set is answered with a 4xx status,
\* no provider was invoked for it and it wrote no users, credit_history or
\* generations row; whatever a request invoked or wrote, it did for a known
\* user and a category of the closed set.
C23_RejectedBeforeAnyWork ==
    \A r \in Reqs :
       LET q == req[r]
       IN  /\ (q.pc = "done" /\ q.resp.code \in ValidationCodes) =>
                 /\ q.resp.status \in ClientErrors /\ ~q.resp.success
                 /\ q.calls = <<>> /\ q.selected = ""
                 /\ WroteNothing(r)
                 /\ StoreUntouched
           /\ (q.pc \notin {"idle", "check"}
               /\ (q.userId \notin UserIds \/ q.category \notin Categories)) =>
                 /\ q.pc = "done" /\ q.resp.status \in ClientErrors
                 /\ q.calls = <<>> /\ WroteNothing(r) /\ StoreUntouched
           /\ (q.calls # <<>> \/ ~WroteNothing(r)) =>
                 q.userId \in UserIds /\ q.category \in Categories
C23_Witness ==
    /\ Answered("r1")
    /\ req["r1"].userId = "u1" /\ req["r1"].hasFreeTrial
    /\ req["r1"].category = "hats"
    /\ req["r1"].resp = ErrorResp(400, "CATEGORY")
    /\ EnabledAndActive = ApiSet
    /\ req["r1"].calls = <<>> /\ StoreUntouched

(***************************************************************************)
(* Progress of a generation request.                                       *)
(***************************************************************************)
\* The continuations of the handler that the runtime itself resumes: every
\* step but the answer of the provider's remote call.
HandlerStep(r) ==
    \/ GenStart(r)
    \/ GenBalanceCheck(r)
    \/ GenDownload(r)
    \/ GenDebitRead(r)
    \/ GenDebitWrite(r)
    \/ GenDebitHistory(r)
    \/ GenDebitGeneration(r)
    \/ GenUnlink(r)

\* One generation request under every configuration; the handler's own steps
\* are always taken, the provider may never answer.
SpecProvLive == InitProv /\ [][NextProv]_vars /\ WF_vars(HandlerStep("r1"))

\* C24: a request waiting for a provider's answer eventually stops waiting
\* for it and is answered, even if the provider never answers.
C24_UnansweredCallTimesOut ==
    \A r \in Reqs : (req[r].pc = "calling") ~> (req[r].pc = "done")

(***************************************************************************)
(* Output normalization.                                                   *)
(***************************************************************************)
\* The rule of C25 for object and array outputs.
ProbeRule(out) ==
    IF out.t = "array"
    THEN IF Len(out.a) > 0 THEN Extracted(Element(out.a, 1)) ELSE ExtractionFailed
    ELSE LET value == FirstTruthyField(out.f, <<"url", "image", "output", "result", "images">>)
         IN  IF ~JsTruthy(value) THEN ExtractionFailed
             ELSE IF value.t = "array" THEN Extracted(Element(value.a, 1))
             ELSE Extracted(value)

\* C25: for an object output each provider's normalizer extracts the value
\* of the first of url, image, output, result, images that is there (its
\* first element when it is an array), for an array output its first
\* element, and fails when neither yields a locator.
C25_NormalizersProbeSameFields ==
    \A a \in ApiSet :
       (locator[a].done /\ output.t \in {"object", "array"}) =>
          locator[a] = ProbeRule(output)

(***************************************************************************)
(* The fallback chain of autoProcess.                                      *)
(***************************************************************************)
CalledApis(r) == {req[r].calls[i].api : i \in 1..Len(req[r].calls)}

\* C26: the calls of one request go to pairwise different providers, and so
\* are never more than there are providers, whatever each call returned and
\* whatever the configuration became in between.
C26_EachProviderAtMostOnce ==
    \A r \in Reqs :
       /\ \A i, j \in 1..Len(req[r].calls) :
             i # j => req[r].calls[i].api # req[r].calls[j].api
       /\ Len(req[r].calls) <= Cardinality(ApiSet)
C26_Witness ==
    /\ Answered("r1") /\ AutoMode("r1") /\ reloads > 0
    /\ Len(req["r1"].calls) = Cardinality(ApiSet)
    /\ CalledApis("r1") = ApiSet
    /\ \A i \in 1..Len(req["r1"].calls) : req["r1"].calls[i].res = "fail"
    /\ req["r1"].resp.code = "All APIs failed to process the image"

\* C27: a request that names a provider invokes that provider alone and at
\* most once; when its call fails the request is answered 500 without any
\* other provider having been tried and without a debit.
C27_NamedProviderOnly ==
    \A r \in Reqs :
       NamedMode(r) =>
          /\ CalledApis(r) \subseteq {req[r].api}
          /\ Len(req[r].calls) <= 1
          /\ req[r].selected = "" /\ ~req[r].fallback
          /\ (\E i \in 1..Len(req[r].calls) : req[r].calls[i].res \in {"fail", "inactive"}) =>
                /\ req[r].pc = "done" /\ ~req[r].resp.success
                /\ req[r].resp.status = 500
                /\ WroteNothing(r)
C27_Witness ==
    /\ Answered("r1") /\ req["r1"].api = "nano-banana"
    /\ req["r1"].calls = <<[api |-> "nano-banana", res |-> "fail"]>>
    /\ cfg["idm-vton"].enabled /\ cfg["idm-vton"].active /\ reloads = 0
    /\ req["r1"].resp = ErrorResp(500, "provider failed")
    /\ StoreUntouched

\* C28: when the call to the selected provider succeeds, it stays the only
\* call of the request, usedApi is the selected provider and the response
\* reports usedApi = selected, fallback = false; a response reports
\* fallback = true only for an auto-mode request served by a provider other
\* than the selected one.
C28_FirstCandidateNoFallback ==
    \A r \in Reqs :
       LET q == req[r]
       IN  /\ (AutoMode(r) /\ q.calls # <<>> /\ q.calls[1].res = "ok") =>
                 /\ q.calls = <<[api |-> q.selected, res |-> "ok"]>>
                 /\ q.pc \notin {"calling", "check"}
                 /\ q.usedApi = q.selected /\ ~q.fallback
                 /\ Answered(r) =>
                       /\ q.resp.success /\ q.resp.usedApi = q.selected
                       /\ ~q.resp.fallback
           /\ (Answered(r) /\ q.resp.fallback) =>
                 /\ AutoMode(r) /\ q.resp.success
                 /\ q.resp.usedApi # q.selected
                 /\ Len(q.calls) > 1
C28_Witness ==
    /\ Succeeded("r1") /\ AutoMode("r1")
    /\ EnabledAndActive = ApiSet /\ reloads = 0
    /\ req["r1"].calls = <<[api |-> req["r1"].selected, res |-> "ok"]>>
    /\ req["r1"].resp.usedApi = req["r1"].selected
    /\ ~req["r1"].resp.fallback

AllFailed(r) ==
    /\ Answered(r) /\ AutoMode(r) /\ req[r].calls # <<>>
    /\ \A i \in 1..Len(req[r].calls) : req[r].calls[i].res # "ok"
\* The error of the last provider a request attempted.
LastProviderError(r) == thrownMessage(req[r].calls[Len(req[r].calls)].res)

\* C29: the error with which autoProcess ends after every candidate failed
\* carries, as its message or as its cause, the error of the last provider
\* attempted.
C29_ExhaustionCarriesLastError ==
    \A r \in Reqs :
       AllFailed(r) =>
          \/ req[r].lastError = LastProviderError(r)
          \/ req[r].lastCause = LastProviderError(r)

\* C30: no step enters a provider whose enabled flag is false, in auto and
\* in named mode; every provider a step of autoProcess attempts, at
\* selection or as a fallback, is enabled and active in the configuration as
\* it is at that step.
C30_DisabledNeverInvoked ==
    [][ \A r \in Reqs :
          LET q == req[r]
              q2 == req'[r]
          IN  \A i \in (Len(q.calls) + 1)..Len(q2.calls) :
                 /\ q2.calls[i].res \in {"call", "inactive"} =>
                       cfg[q2.calls[i].api].enabled
                 /\ q2.api = "" =>
                       /\ cfg[q2.calls[i].api].enabled
                       /\ cfg[q2.calls[i].api].active
      ]_vars
C30_Witness ==
    \E a \in ApiSet :
       /\ Answered("r1") /\ AutoMode("r1")
       /\ req["r1"].activeApis = Apis
       /\ a # req["r1"].selected
       /\ ~cfg[a].enabled /\ cfg[a].active
       /\ req["r1"].calls = <<[api |-> req["r1"].selected, res |-> "fail"]>>
       /\ req["r1"].resp.code = "All APIs failed to process the image"

(***************************************************************************)
(* Paddle deliveries.                                                      *)
(***************************************************************************)
\* Two Paddle deliveries processed concurrently; storage works.
InitPaddle == InitStore(FALSE, {apiConfig}, {0}, SameMeta({PaidOrderMeta}))
NextPaddle == \E p \in Pads : PaddleStep(p)
SpecPaddle == InitPaddle /\ [][NextPaddle]_vars

PaddleEventIds == {ev.eventId : ev \in PaddleEventInputs}
AppliedDeliveries(e) == {p \in Pads : pad[p].event.eventId = e /\ pad[p].applied}

\* C31: of the deliveries of one Paddle event id at most one has added
\* credits, in whatever order their steps interleave.
C31_PaddleEventCreditsOnce ==
    \A e \in PaddleEventIds : Cardinality(AppliedDeliveries(e)) <= 1

(***************************************************************************)
(* Order of verification, deduplication and credit application.            *)
(***************************************************************************)
\* C32: in both routes a step makes a storage call for a delivery only
\* after an earlier step verified its signature; the first storage call of
\* a delivery is its deduplication lookup; and a step writes a transactions
\* row or adds credits only after that lookup was made and found nothing.
C32_VerifyThenDedupeThenCredit ==
    [][ /\ \A d \in Dels :
             LET q == del[d]
                 q2 == del'[d]
             IN  /\ q2.nStorage > q.nStorage => (q.sig = "ok" /\ q.pc # "idle")
                 /\ (q.nStorage = 0 /\ q2.nStorage > 0) => q.pc = "lookup"
                 /\ ((q2.inserted /\ ~q.inserted) \/ (q2.applied /\ ~q.applied)) =>
                       /\ q.nStorage >= 1 /\ q.dup = ""
                       /\ q.pc \notin {"idle", "lookup"}
        /\ \A p \in Pads :
             LET q == pad[p]
                 q2 == pad'[p]
             IN  /\ q2.nStorage > q.nStorage => (q.sig = "ok" /\ q.pc # "idle")
                 /\ (q.nStorage = 0 /\ q2.nStorage > 0) => q.pc = "dedupe"
                 /\ ((q2.applied /\ ~q.applied) \/ (q2.logged /\ ~q.logged)) =>
                       /\ q.nStorage >= 1
                       /\ q.pc \notin {"idle", "dedupe"}
      ]_vars
C32_Witness ==
    /\ del["d1"].pc = "done" /\ del["d1"].sig = "ok"
    /\ del["d1"].applied /\ del["d1"].nStorage = 4
    /\ pad["p1"].pc = "done" /\ pad["p1"].sig = "ok"
    /\ pad["p1"].applied /\ pad["p1"].logged /\ pad["p1"].nStorage = 6

(***************************************************************************)
(* Failure of the Polar deduplication lookup.                              *)
(***************************************************************************)
PolarRows == {t \in transactions : t.payment_provider = "polar"}

\* C33: the step in which a delivery's transactions lookup fails with a
\* storage error ends the delivery: it is acknowledged, nothing is written,
\* and the delivery never inserts a transactions row or changes credits.
C33_LookupErrorStops ==
    [][ \A d \in Dels :
          /\ (del[d].pc = "lookup" /\ del'[d].failed) =>
                /\ del'[d].pc = "done" /\ del'[d].resp = 202
                /\ del'[d].nStorage = 1
                /\ ~del'[d].inserted /\ ~del'[d].applied
                /\ users' = users /\ transactions' = transactions
          /\ del[d].pc = "done" => del'[d] = del[d]
      ]_vars
C33_Witness ==
    /\ del["d1"].pc = "done" /\ del["d1"].failed /\ del["d1"].nStorage = 1
    /\ del["d1"].etype = "order.created" /\ del["d1"].status = "paid"
    /\ WellFormed(del["d1"].order)
    /\ ~del["d1"].inserted /\ ~del["d1"].applied
    /\ PolarRows = {} /\ users = init

(***************************************************************************)
(* Redelivery after a failed attempt.                                      *)
(***************************************************************************)
\* A Paddle delivery and its redelivery, one after the other; storage calls
\* may fail.
InitPaddleRetry == InitStore(TRUE, {apiConfig}, {0}, SameMeta({PaidOrderMeta}))
NextPaddleRetry ==
    \/ PaddleStep("p1")
    \/ (pad["p1"].pc = "done" /\ PaddleStep("p2"))
SpecPaddleRetry == InitPaddleRetry /\ [][NextPaddleRetry]_vars

\* A completed transaction of a known customer for listed prices.
Creditable(ev) ==
    /\ ev.eventType = "transaction.completed"
    /\ \E u \in UserIds : users[u].email = ev.email
    /\ totalCreditsOf(ev.items) > 0
\* The attempt ended without the credits: its users select or its credits
\* update failed.
FailedBeforeCredit(p) ==
    /\ pad[p].pc = "done" /\ pad[p].sig = "ok" /\ Creditable(pad[p].event)
    /\ pad[p].failed /\ ~pad[p].applied
AnsweredDuplicate(p) ==
    pad[p].pc = "done" /\ pad[p].sig = "ok" /\ pad[p].resp = 200 /\ pad[p].nStorage = 1

\* C34: an attempt that failed before the credits were added leaves no
\* paddle_events row of its event, and a delivery of a creditable event is
\* answered as a duplicate only when some delivery of it added the credits.
C34_FailedAttemptLeavesNoRecord ==
    \A p \in Pads :
       /\ FailedBeforeCredit(p) =>
             \A i \in 1..Len(paddleEvents) :
                paddleEvents[i].event_id # pad[p].event.eventId
       /\ (AnsweredDuplicate(p) /\ Creditable(pad[p].event)) =>
             AppliedDeliveries(pad[p].event.eventId) # {}

(***************************************************************************)
(* Debits of a generation request.                                         *)
(***************************************************************************)
\* One generation request under the shipped configuration; storage calls and
\* the removal of the temporary files may fail.
InitGenFault == InitStore(TRUE, {apiConfig}, 0..FreeTrialsLimit, SameMeta({PaidOrderMeta}))
NextGenFault == GenStep("r1")
SpecGenFault == InitGenFault /\ [][NextGenFault]_vars

\* C35: a request runs useFreeTrial / useCredits at most once, takes at most
\* one free trial or credit and writes at most one generations row, also
\* when the local save or the removal of the temporary files fails.
C35_AtMostOneDebit ==
    \A r \in Reqs :
       /\ req[r].nDebitCalls <= 1
       /\ req[r].nFree + req[r].nCred <= 1
       /\ req[r].nGen <= 1

DebitReportedFailure(r) ==
    Answered(r) /\ req[r].nDebitCalls >= 1 /\ ~req[r].genResult.success

\* C36: a request answered with success: true has incremented
\* free_trials_used or decremented credits, and a request whose
\* useFreeTrial / useCredits returned a failure is not answered with
\* success: true.
C36_SuccessImpliesDebit ==
    \A r \in Reqs :
       /\ Succeeded(r) => req[r].nFree + req[r].nCred >= 1
       /\ DebitReportedFailure(r) => ~req[r].resp.success

\* C37: the success response of a request reports usedFreeTrial exactly
\* when the request consumed a free trial, creditsRemaining as the credits
\* stored after its debit and freeTrialsRemaining as free_trials_limit minus
\* the stored free_trials_used.
C37_ResponseReportsBalance ==
    Succeeded("r1") =>
       /\ req["r1"].resp.usedFreeTrial = (req["r1"].nFree >= 1)
       /\ req["r1"].resp.creditsRemaining = Account.credits
       /\ req["r1"].resp.freeTrialsRemaining =
             Account.free_trials_limit - Account.free_trials_used

(***************************************************************************)
(* useFreeTrial / useCredits without balance.                              *)
(***************************************************************************)
NoBalanceCodes == {"NO_FREE_TRIALS", "INSUFFICIENT_CREDITS"}

\* C38: the step in which useFreeTrial finds free_trials_used >=
\* free_trials_limit, or useCredits finds credits below the credits to use,
\* returns the failure result NO_FREE_TRIALS / INSUFFICIENT_CREDITS and
\* leaves users, credit_history and generations as they were; these results
\* are returned in no other case.
C38_DebitWithoutBalanceFails ==
    [][ \A r \in Reqs :
          LET q == req[r]
              q2 == req'[r]
              row == users[q.userId]
              short == IF usesFreeTrial(q)
                       THEN row.free_trials_used >= row.free_trials_limit
                       ELSE ToNumber(row.credits) < CreditsPerGeneration
          IN  (q.pc = "dRead" /\ q2.pc # "dRead") =>
                 /\ short =>
                       /\ q2.pc \in {"unlink", "done"}
                       /\ ~q2.genResult.success
                       /\ q2.genResult.code =
                             IF usesFreeTrial(q) THEN "NO_FREE_TRIALS"
                             ELSE "INSUFFICIENT_CREDITS"
                       /\ users' = users /\ creditHistory' = creditHistory
                       /\ generations' = generations
                       /\ q2.nFree = q.nFree /\ q2.nCred = q.nCred /\ q2.nGen = q.nGen
                 /\ q2.genResult.code \in NoBalanceCodes => short
      ]_vars
C38_Witness ==
    /\ req["r2"].genResult.code = "NO_FREE_TRIALS"
    /\ req["r2"].nDebitCalls = 1 /\ req["r1"].nFree = 1
    /\ req["r2"].nFree = 0 /\ req["r2"].nGen = 0
    /\ Account.free_trials_used = Account.free_trials_limit
    /\ Len(generations) = 1

(***************************************************************************)
(* The second selection function (services/apiConfig.js).                  *)
(***************************************************************************)
\* apiConfig.js's own getActiveApis: the configured names whose enabled flag
\* is set, in the order of the configuration's keys; `active` is not read.
configGetActiveApis(c) ==
    FilterSeq(Apis, {a \in ApiSet : c[a].enabled})

\* priority[category] || 999: a missing or zero rank counts as 999.
priorityOr999(a, category) ==
    IF priority(a, category) = 0 THEN 999 ELSE priority(a, category)

\* The list sorted by rank, ascending; Array.prototype.sort is stable, so
\* equal ranks keep the order of the configuration's keys.  "" stands for the
\* thrown 'No active APIs available'.
selectBestApiForCategory(c, category) ==
    LET activeApis == configGetActiveApis(c)
        names == {activeApis[i] : i \in 1..Len(activeApis)}
        first(a) == \A b \in names \ {a} :
                       \/ priorityOr999(a, category) < priorityOr999(b, category)
                       \/ /\ priorityOr999(a, category) = priorityOr999(b, category)
                          /\ RegistrationIndex(a) < RegistrationIndex(b)
    IN  IF activeApis = <<>> THEN ""
        ELSE CHOOSE a \in names : first(a)

\* C39: for every category and every combination of the enabled and active
\* flags, ApiManager.selectBestApi and apiConfig's selectBestApiForCategory
\* return the same provider, or both throw.
C39_SelectionFunctionsAgree ==
    \A category \in Categories :
        selectBestApi(cfg, category) = selectBestApiForCategory(cfg, category)

====
